---- MODULE Spec2Model ----
(***************************************************************************)
(* Birthday Progress sensor (custom_components/birthday_progress).         *)
(*                                                                         *)
(* A datetime is a record [year, month, day, hour, minute, second] in the  *)
(* single local zone the sensor works in (birth_datetime is built with     *)
(* dt_util.as_local and every candidate is built with its tzinfo, so       *)
(* dt_util.as_local on a result changes nothing).  A timedelta is a record *)
(* [days, seconds] normalised as Python does: 0 <= seconds < 86400.        *)
(***************************************************************************)
EXTENDS Integers, Sequences, FiniteSets, TLC

(* ------------------------------ bounds -------------------------------- *)

\* The query instants cover the years 2023 .. 2023 + MaxYearSpan.
MaxYearSpan == 3

NowYears == 2023 .. (2023 + MaxYearSpan)

\* Seconds of the day at which the clock is sampled: every birth time of
\* day, the second before it and the second after it.
TimesOfDay == {0, 1, 45014, 45015, 45016, 86399}

(* ----------------------- datetime (Python stdlib) ---------------------- *)

IsLeap(y) == (y % 4 = 0) /\ ((y % 100 # 0) \/ (y % 400 = 0))

DaysInMonth(y, m) ==
    IF m = 2 THEN (IF IsLeap(y) THEN 29 ELSE 28)
    ELSE IF m \in {4, 6, 9, 11} THEN 30 ELSE 31

\* datetime(y, m, d, ...) raises ValueError exactly when this is false.
ValidDate(y, m, d) == m \in 1..12 /\ d >= 1 /\ d <= DaysInMonth(y, m)

DateTime(y, m, d, hh, mm, ss) ==
    [year |-> y, month |-> m, day |-> d, hour |-> hh, minute |-> mm, second |-> ss]

\* Days from 1 January of year 2000 to 1 January of year y (negative before).
DaysBeforeYear(y) ==
    LET n(k) == 365 * k + (k \div 4) - (k \div 100) + (k \div 400)
    IN n(y - 1) - n(1999)

RECURSIVE DaysBeforeMonth(_, _)
DaysBeforeMonth(y, m) ==
    IF m = 1 THEN 0 ELSE DaysBeforeMonth(y, m - 1) + DaysInMonth(y, m - 1)

\* date.toordinal(), counted from 2000-01-01 to keep the numbers small.
Ordinal(dt) == DaysBeforeYear(dt.year) + DaysBeforeMonth(dt.year, dt.month) + (dt.day - 1)

SecondOfDay(dt) == dt.hour * 3600 + dt.minute * 60 + dt.second

\* a < b, a <= b on datetimes of one zone
DtLt(a, b) ==
    \/ Ordinal(a) < Ordinal(b)
    \/ Ordinal(a) = Ordinal(b) /\ SecondOfDay(a) < SecondOfDay(b)

DtLeq(a, b) == a = b \/ DtLt(a, b)

\* a - b, a timedelta
DtSub(a, b) ==
    LET d == Ordinal(a) - Ordinal(b)
        s == SecondOfDay(a) - SecondOfDay(b)
    IN IF s >= 0 THEN [days |-> d, seconds |-> s]
       ELSE [days |-> d - 1, seconds |-> s + 86400]

\* timedelta.total_seconds()
total_seconds(td) == td.days * 86400 + td.seconds

\* the candidate of year y on month m, day d, at the birth time of day
WithBirthTime(birth, y, m, d) ==
    DateTime(y, m, d, birth.hour, birth.minute, birth.second)

(* ------------------------- AnniversaryCalculator ----------------------- *)

\* The loop of lines 173-187: the first year of the list whose Feb 29
\* exists and lies strictly after now; Found is FALSE when the loop ends
\* without break (the for/else of line 188).
RECURSIVE NextFeb29Scan(_, _, _)
NextFeb29Scan(years, birth, now) ==
    IF years = << >> THEN [found |-> FALSE]
    ELSE LET year == Head(years)
             c == WithBirthTime(birth, year, 2, 29)
         IN IF ValidDate(year, 2, 29) /\ DtLt(now, c)
              THEN [found |-> TRUE, value |-> c]
              ELSE NextFeb29Scan(Tail(years), birth, now)

\* The fallback of lines 190-198 taking Feb 28 of current_year.
NextBirthdayExceptSameYear(birth, now) ==
    LET current_year == now.year
    IN IF birth.month = 2 /\ birth.day = 29
         THEN LET scan == NextFeb29Scan(<<current_year, current_year + 1>>, birth, now)
              IN IF scan.found THEN scan.value
                 ELSE WithBirthTime(birth, current_year, 2, 28)
         ELSE WithBirthTime(birth, current_year + 1, birth.month, birth.day)

\* The loop of line 173 trying current_year only.
NextBirthdayExceptOneYear(birth, now) ==
    LET current_year == now.year
    IN IF birth.month = 2 /\ birth.day = 29
         THEN LET scan == NextFeb29Scan(<<current_year>>, birth, now)
              IN IF scan.found THEN scan.value
                 ELSE WithBirthTime(birth, current_year + 1, 2, 28)
         ELSE WithBirthTime(birth, current_year + 1, birth.month, birth.day)

\* The fallback of lines 190-198 taking Feb 29 of current_year + 1, a date
\* that need not exist: datetime() raises there, outside any try.
NextBirthdayExceptFeb29(birth, now) ==
    LET current_year == now.year
    IN IF birth.month = 2 /\ birth.day = 29
         THEN LET scan == NextFeb29Scan(<<current_year, current_year + 1>>, birth, now)
              IN IF scan.found THEN scan.value
                 ELSE WithBirthTime(birth, current_year + 1, 2, 29)
         ELSE WithBirthTime(birth, current_year + 1, birth.month, birth.day)

\* The except ValueError branch of _calculate_next_birthday.
NextBirthdayExcept(birth, now) ==
    LET current_year == now.year
    IN IF birth.month = 2 /\ birth.day = 29
         THEN LET scan == NextFeb29Scan(<<current_year, current_year + 1>>, birth, now)
              IN IF scan.found THEN scan.value
                 ELSE WithBirthTime(birth, current_year + 1, 2, 28)
         ELSE WithBirthTime(birth, current_year + 1, birth.month, birth.day)

\* The comparison of line 166 written < instead of <=.
NextBirthdayStrictCompare(birth, now) ==
    LET current_year == now.year
        c == WithBirthTime(birth, current_year, birth.month, birth.day)
    IN IF ~ValidDate(current_year, birth.month, birth.day)
         THEN NextBirthdayExcept(birth, now)
       ELSE IF ~DtLt(c, now) THEN c
       ELSE IF ValidDate(current_year + 1, birth.month, birth.day)
         THEN WithBirthTime(birth, current_year + 1, birth.month, birth.day)
       ELSE NextBirthdayExcept(birth, now)

_calculate_next_birthday(birth, now) ==
    LET current_year == now.year
        c == WithBirthTime(birth, current_year, birth.month, birth.day)
    IN IF ~ValidDate(current_year, birth.month, birth.day)
         THEN NextBirthdayExcept(birth, now)
       ELSE IF ~DtLeq(c, now) THEN c
       ELSE IF ValidDate(current_year + 1, birth.month, birth.day)
         THEN WithBirthTime(birth, current_year + 1, birth.month, birth.day)
       \* replace(year=...) raised ValueError inside the try
       ELSE NextBirthdayExcept(birth, now)

\* The loop of lines 361-375, scanning backward.
RECURSIVE LastFeb29Scan(_, _, _)
LastFeb29Scan(years, birth, now) ==
    IF years = << >> THEN [found |-> FALSE]
    ELSE LET year == Head(years)
             c == WithBirthTime(birth, year, 2, 29)
         IN IF ValidDate(year, 2, 29) /\ DtLeq(c, now)
              THEN [found |-> TRUE, value |-> c]
              ELSE LastFeb29Scan(Tail(years), birth, now)

\* The fallback of lines 378-386 taking Mar 1 of current_year - 1.
LastBirthdayExceptMarchFirst(birth, now) ==
    LET current_year == now.year
    IN IF birth.month = 2 /\ birth.day = 29
         THEN LET scan == LastFeb29Scan(<<current_year, current_year - 1>>, birth, now)
              IN IF scan.found THEN scan.value
                 ELSE WithBirthTime(birth, current_year - 1, 3, 1)
         ELSE WithBirthTime(birth, current_year - 1, birth.month, birth.day)

\* The except ValueError branch of _calculate_last_birthday.
LastBirthdayExcept(birth, now) ==
    LET current_year == now.year
    IN IF birth.month = 2 /\ birth.day = 29
         THEN LET scan == LastFeb29Scan(<<current_year, current_year - 1>>, birth, now)
              IN IF scan.found THEN scan.value
                 ELSE WithBirthTime(birth, current_year - 1, 2, 28)
         ELSE WithBirthTime(birth, current_year - 1, birth.month, birth.day)

\* The comparison of line 354 written >= instead of >.
LastBirthdayNonStrictCompare(birth, now) ==
    LET current_year == now.year
        c == WithBirthTime(birth, current_year, birth.month, birth.day)
    IN IF ~ValidDate(current_year, birth.month, birth.day)
         THEN LastBirthdayExcept(birth, now)
       ELSE IF ~DtLeq(now, c) THEN c
       ELSE IF ValidDate(current_year - 1, birth.month, birth.day)
         THEN WithBirthTime(birth, current_year - 1, birth.month, birth.day)
       ELSE LastBirthdayExcept(birth, now)

_calculate_last_birthday(birth, now) ==
    LET current_year == now.year
        c == WithBirthTime(birth, current_year, birth.month, birth.day)
    IN IF ~ValidDate(current_year, birth.month, birth.day)
         THEN LastBirthdayExcept(birth, now)
       ELSE IF ~DtLt(now, c) THEN c
       ELSE IF ValidDate(current_year - 1, birth.month, birth.day)
         THEN WithBirthTime(birth, current_year - 1, birth.month, birth.day)
       \* replace(year=...) raised ValueError inside the try
       ELSE LastBirthdayExcept(birth, now)

(* ----------------------------- ProgressEngine -------------------------- *)

\* n / t to k decimal digits by long division: [q, r] with
\* n * 10^k = q * t + r and 0 <= r < t  (n >= 0, t > 0).
RECURSIVE LongDiv(_, _, _)
LongDiv(n, t, k) ==
    IF k = 0 THEN [q |-> n \div t, r |-> n % t]
    ELSE LET p == LongDiv(n, t, k - 1)
         IN [q |-> p.q * 10 + ((p.r * 10) \div t), r |-> (p.r * 10) % t]

\* round((elapsed / total) * 100.0, 4), as a count of 0.0001 % units
\* (1000000 is 100.0 %); a tie goes to the even neighbour, as round() does.
RoundedPercent(elapsed_time, total_time) ==
    LET a == IF elapsed_time < 0 THEN -elapsed_time ELSE elapsed_time
        d == LongDiv(a, total_time, 6)
        m == IF 2 * d.r > total_time THEN d.q + 1
             ELSE IF 2 * d.r < total_time THEN d.q
             ELSE IF d.q % 2 = 0 THEN d.q ELSE d.q + 1
    IN IF elapsed_time < 0 THEN -m ELSE m

\* total_time and elapsed_time of lines 319 and 322
ProgressTotal(next_birthday, last_birthday) ==
    total_seconds(DtSub(next_birthday, last_birthday))

ProgressElapsed(now, last_birthday) ==
    total_seconds(DtSub(now, last_birthday))

\* elapsed_time of line 322 measured from the birth instead of the last
\* birthday.
ProgressSinceBirth(birth, now1, now2, now3) ==
    LET next_birthday == _calculate_next_birthday(birth, now2)
        last_birthday == _calculate_last_birthday(birth, now3)
        total_time == ProgressTotal(next_birthday, last_birthday)
        elapsed_time == ProgressElapsed(now1, birth)
    IN IF total_time > 0 THEN RoundedPercent(elapsed_time, total_time) ELSE 0

\* now1, now2, now3 are the values dt_util.now() returns at line 312, at
\* line 148 (inside _calculate_next_birthday) and at line 337 (inside
\* _calculate_last_birthday).
_calculate_progress_percentage(birth, now1, now2, now3) ==
    LET next_birthday == _calculate_next_birthday(birth, now2)
        last_birthday == _calculate_last_birthday(birth, now3)
        total_time == ProgressTotal(next_birthday, last_birthday)
        elapsed_time == ProgressElapsed(now1, last_birthday)
    IN IF total_time > 0 THEN RoundedPercent(elapsed_time, total_time) ELSE 0

\* now1 is read at line 125, now2 at line 337.  The fields of the string
\* "<years>y <days>d HH:MM:SS".
_calculate_age_exact(birth, now1, now2) ==
    LET last_birthday == _calculate_last_birthday(birth, now2)
        time_since_last_birthday == DtSub(now1, last_birthday)
    IN [years   |-> last_birthday.year - birth.year,
        days    |-> time_since_last_birthday.days,
        hours   |-> time_since_last_birthday.seconds \div 3600,
        minutes |-> (time_since_last_birthday.seconds % 3600) \div 60,
        seconds |-> (time_since_last_birthday.seconds % 3600) % 60]

\* now1 is read at line 219, now2 at line 148.  The fields of the string
\* "<days> days, HH:MM:SS".
_calculate_time_until_next(birth, now1, now2) ==
    LET next_birthday == _calculate_next_birthday(birth, now2)
        time_delta == DtSub(next_birthday, now1)
    IN [days    |-> time_delta.days,
        hours   |-> time_delta.seconds \div 3600,
        minutes |-> (time_delta.seconds % 3600) \div 60,
        seconds |-> (time_delta.seconds % 3600) % 60]

(* ---------------------------- DurationDecomposer ----------------------- *)

\* A timedelta is [days, seconds, microseconds] as Python normalises it:
\* 0 <= seconds < 86400 and 0 <= microseconds < 10^6.  Whole-second counts
\* of long spans exceed 32-bit integers, so a count of seconds is kept as
\* [days, seconds]: its quotient and remainder by the 86400 seconds of a day.

\* 2^k <= days * 86400 + seconds, with 86400 = 2^7 * 675
AtLeastPow2(td, k) ==
    LET p == 2 ^ (k - 7)
    IN \/ td.days > p \div 675
       \/ td.days = p \div 675 /\ td.seconds >= 128 * (p % 675)

\* The binade of the whole seconds of a span shorter than 2^37 seconds;
\* every binade below 2^34 behaves alike and is reported as 33.
Binade(td) ==
    IF AtLeastPow2(td, 36) THEN 36
    ELSE IF AtLeastPow2(td, 35) THEN 35
    ELSE IF AtLeastPow2(td, 34) THEN 34
    ELSE 33

\* timedelta.total_seconds() is the double nearest to
\* (whole * 10^6 + microseconds) / 10^6; a double in [2^e, 2^(e+1)) is a
\* multiple of 2^(e-52), so the fraction rounds up to the next whole second
\* when 10^6 - microseconds is less than half that step.
FloatRoundsUp(td) ==
    /\ td.microseconds > 0
    /\ Binade(td) >= 34
    /\ (1000000 - td.microseconds) * 2 ^ (53 - Binade(td)) < 1000000

\* int(time_delta.total_seconds()) of line 239, for a non-negative span
IntTotalSeconds(td) ==
    IF ~FloatRoundsUp(td) THEN [days |-> td.days, seconds |-> td.seconds]
    ELSE IF td.seconds + 1 < 86400
           THEN [days |-> td.days, seconds |-> td.seconds + 1]
           ELSE [days |-> td.days + 1, seconds |-> 0]

\* total % m for an m that divides 86400
TotalMod(total, m) == total.seconds % m

_calculate_detailed_time_breakdown(time_delta) ==
    LET total_secs == IntTotalSeconds(time_delta)
        total_days == time_delta.days
        remaining_days == total_days % 365
        remaining_days_after_months == remaining_days % 30
    IN [years   |-> total_days \div 365,
        months  |-> remaining_days \div 30,
        weeks   |-> remaining_days_after_months \div 7,
        days    |-> remaining_days_after_months % 7,
        hours   |-> TotalMod(total_secs, 86400) \div 3600,
        minutes |-> TotalMod(total_secs, 3600) \div 60,
        seconds |-> TotalMod(total_secs, 60)]

\* f"{n} {unit}{'s' if n != 1 else ''}"
Part(n, unit) == ToString(n) \o " " \o unit \o (IF n # 1 THEN "s" ELSE "")

\* lines 279-294: the parts appended, in order
FormatParts(bd) ==
    LET p1 == IF bd.years > 0 THEN <<Part(bd.years, "year")>> ELSE << >>
        p2 == IF bd.months > 0 THEN Append(p1, Part(bd.months, "month")) ELSE p1
        p3 == IF bd.weeks > 0 THEN Append(p2, Part(bd.weeks, "week")) ELSE p2
        p4 == IF bd.days > 0 THEN Append(p3, Part(bd.days, "day")) ELSE p3
        p5 == IF bd.hours > 0 THEN Append(p4, Part(bd.hours, "hour")) ELSE p4
        p6 == IF bd.minutes > 0 THEN Append(p5, Part(bd.minutes, "minute")) ELSE p5
    IN IF bd.seconds > 0 \/ Len(p6) = 0
         THEN Append(p6, Part(bd.seconds, "second")) ELSE p6

\* ", ".join(parts)
RECURSIVE JoinComma(_)
JoinComma(parts) ==
    IF Len(parts) = 0 THEN ""
    ELSE IF Len(parts) = 1 THEN parts[1]
    ELSE parts[1] \o ", " \o JoinComma(Tail(parts))

\* lines 296-303 joining every part with ", " (no "and").
JoinPartsCommaOnly(parts) ==
    IF Len(parts) = 0 THEN "0 seconds" ELSE JoinComma(parts)

\* lines 296-303
JoinParts(parts) ==
    IF Len(parts) = 0 THEN "0 seconds"
    ELSE IF Len(parts) = 1 THEN parts[1]
    ELSE IF Len(parts) = 2 THEN parts[1] \o " and " \o parts[2]
    ELSE JoinComma(SubSeq(parts, 1, Len(parts) - 1)) \o ", and " \o parts[Len(parts)]

_format_detailed_time(bd) == JoinParts(FormatParts(bd))

(* ------------------------------ config flow ---------------------------- *)

\* What the user types is kept by its shape: a date as DD.MM.YYYY or
\* YYYY-MM-DD with its three numbers, any other text, or nothing; a time as
\* HH:MM:SS or HH:MM with its numbers, any other text, or nothing.

IsoDate(y, m, d) == [year |-> y, month |-> m, day |-> d]

\* lines 25-58: both accepted shapes come out as YYYY-MM-DD, anything else
\* raises ValueError
parse_german_date(date_str) ==
    IF date_str.kind \in {"DD.MM.YYYY", "YYYY-MM-DD"}
      THEN [raised |-> FALSE,
            value |-> IsoDate(date_str.year, date_str.month, date_str.day)]
      ELSE [raised |-> TRUE]

\* dt_util.parse_date: None for a date that does not exist
parse_date(iso) ==
    IF ValidDate(iso.year, iso.month, iso.day)
      THEN [none |-> FALSE, value |-> iso]
      ELSE [none |-> TRUE]

\* dt_util.parse_time: None for a text that is no time of day
parse_time(time_str) ==
    IF time_str.kind = "HH:MM:SS"
      THEN [none |-> FALSE, hour |-> time_str.hour, minute |-> time_str.minute,
            second |-> time_str.second]
    ELSE IF time_str.kind = "HH:MM"
      THEN [none |-> FALSE, hour |-> time_str.hour, minute |-> time_str.minute,
            second |-> 0]
    ELSE [none |-> TRUE]

\* date_obj > dt_util.now().date()
DateAfter(date_obj, today) ==
    Ordinal(date_obj) > Ordinal(today)

\* lines 61-89
validate_date(date_str, clock) ==
    LET iso == parse_german_date(date_str)
    IN IF iso.raised THEN [raised |-> TRUE]
       ELSE IF parse_date(iso.value).none THEN [raised |-> TRUE]
       ELSE IF DateAfter(parse_date(iso.value).value, clock) THEN [raised |-> TRUE]
       ELSE [raised |-> FALSE, value |-> iso.value]

\* lines 92-111: TRUE when validate_time raises ValueError
validate_time_raises(time_str) ==
    time_str.kind # "absent" /\ parse_time(time_str).none

\* lines 135-183 of async_step_user: the errors found for the input
FormErrors(user_input, clock) ==
    (IF user_input.name = "" THEN {<<"name", "name_required">>} ELSE {})
    \cup (IF user_input.birth_date.kind = "empty"
            THEN {<<"birth_date", "date_required">>}
          ELSE IF validate_date(user_input.birth_date, clock).raised
            THEN {<<"birth_date", "invalid_date">>}
          ELSE {})
    \cup (IF validate_time_raises(user_input.birth_time)
            THEN {<<"birth_time", "invalid_time">>}
          ELSE {})

\* lines 162-172: the data of the entry created
EntryData(user_input, clock) ==
    [name |-> user_input.name,
     birth_date |-> validate_date(user_input.birth_date, clock).value,
     birth_time |-> user_input.birth_time]

\* sensor.py lines 92-116; the stored date always parses
_parse_birth_datetime(data) ==
    LET birth_date == parse_date(data.birth_date).value
        birth_time == parse_time(data.birth_time)
    IN IF data.birth_time.kind # "absent" /\ ~birth_time.none
         THEN DateTime(birth_date.year, birth_date.month, birth_date.day,
                       birth_time.hour, birth_time.minute, birth_time.second)
         ELSE DateTime(birth_date.year, birth_date.month, birth_date.day, 0, 0, 0)

(* ------------------------------- the clock ----------------------------- *)

FromSecondOfDay(y, m, d, s) ==
    DateTime(y, m, d, s \div 3600, (s % 3600) \div 60, s % 60)

\* midnight of the day after dt
NextDay(dt) ==
    IF dt.day < DaysInMonth(dt.year, dt.month)
      THEN FromSecondOfDay(dt.year, dt.month, dt.day + 1, 0)
    ELSE IF dt.month < 12 THEN FromSecondOfDay(dt.year, dt.month + 1, 1, 0)
    ELSE FromSecondOfDay(dt.year + 1, 1, 1, 0)

Min(S) == CHOOSE x \in S : \A y \in S : x <= y

Max(S) == CHOOSE x \in S : \A y \in S : x >= y

\* the next sampled instant after dt
NextSample(dt) ==
    LET later == {s \in TimesOfDay : s > SecondOfDay(dt)}
        n == NextDay(dt)
    IN IF later # {} THEN FromSecondOfDay(dt.year, dt.month, dt.day, Min(later))
       ELSE FromSecondOfDay(n.year, n.month, n.day, Min(TimesOfDay))

\* dt + timedelta(seconds=1)
AddSecond(dt) ==
    IF SecondOfDay(dt) < 86399
      THEN FromSecondOfDay(dt.year, dt.month, dt.day, SecondOfDay(dt) + 1)
      ELSE NextDay(dt)

\* dt - timedelta(seconds=1)
SubSecond(dt) ==
    IF SecondOfDay(dt) > 0
      THEN FromSecondOfDay(dt.year, dt.month, dt.day, SecondOfDay(dt) - 1)
    ELSE IF dt.day > 1 THEN FromSecondOfDay(dt.year, dt.month, dt.day - 1, 86399)
    ELSE IF dt.month > 1
      THEN FromSecondOfDay(dt.year, dt.month - 1, DaysInMonth(dt.year, dt.month - 1), 86399)
    ELSE FromSecondOfDay(dt.year - 1, 12, 31, 86399)

\* the birth instants tracked (entry.data birth_date, birth_time)
Births ==
    { DateTime(1996,  6, 15,  0,  0,  0),
      DateTime(2000,  2, 29,  0,  0,  0),
      DateTime(2000,  2, 29, 12, 30, 15),
      DateTime(2001,  2, 28, 12, 30, 15),
      DateTime(2000,  3,  1,  0,  0,  0),
      DateTime(1999, 12, 31, 12, 30, 15),
      DateTime(2000,  1,  1,  0,  0,  0) }

(* ------------------------------ the sensor ----------------------------- *)

VARIABLES
    birth_datetime,            \* self._birth_datetime
    now,                       \* the wall clock, what dt_util.now() returns
    next_birthday,             \* next_birthday of extra_state_attributes
    last_birthday,             \* last_birthday of extra_state_attributes
    progress_percentage,       \* native_value, in 0.0001 % units
    age_exact,                 \* attribute age_exact
    time_until_next,           \* attribute time_until_next
    time_since_birth,          \* now - birth_datetime of line 428
    time_until_next_detailed,  \* next_birthday - now of line 432
    pc,                        \* where the property being evaluated stands
    reads,                     \* the clock values read by that evaluation
    ticks                      \* seconds the clock moved since the start

metrics == <<next_birthday, last_birthday, progress_percentage, age_exact,
             time_until_next, time_since_birth, time_until_next_detailed>>

VARIABLES
    time_delta,                \* the span handed to _calculate_detailed_time_breakdown
    breakdown,                 \* its result, handed to _format_detailed_time
    formatted,                 \* the string _format_detailed_time returns
    entry_data,                \* entry.data of the config entry the flow created
    errors,                    \* the errors the form is shown again with
    accepted_at,               \* the clock reading when the entry was created
    hass_data,                 \* hass.data
    entry_state,               \* each config entry: loaded or not, its coordinator
    coordinators               \* BirthdayProgressCoordinator objects created so far

durations == <<time_delta, breakdown, formatted>>

flow == <<entry_data, errors, accepted_at>>

registry == <<hass_data, entry_state, coordinators>>

\* what the evaluation of the sensor's properties leaves alone
others == <<durations, flow, registry>>

NoDurations ==
    /\ time_delta = "none"
    /\ breakdown = "none"
    /\ formatted = "none"

NoFlow ==
    /\ entry_data = "none"
    /\ errors = {}
    /\ accepted_at = "none"

NoRegistry ==
    /\ hass_data = << >>
    /\ entry_state = << >>
    /\ coordinators = 0

OthersUnused == NoDurations /\ NoFlow /\ NoRegistry

vars == <<birth_datetime, now, next_birthday, last_birthday, progress_percentage,
          age_exact, time_until_next, time_since_birth, time_until_next_detailed,
          pc, reads, ticks, others>>

\* The state as written when every read of the clock returns t.
Written(birth, t) ==
    /\ next_birthday = _calculate_next_birthday(birth, t)
    /\ last_birthday = _calculate_last_birthday(birth, t)
    /\ progress_percentage = _calculate_progress_percentage(birth, t, t, t)
    /\ age_exact = _calculate_age_exact(birth, t, t)
    /\ time_until_next = _calculate_time_until_next(birth, t, t)
    /\ time_since_birth = DtSub(t, birth)
    /\ time_until_next_detailed = DtSub(next_birthday, t)

Write(birth, t) ==
    /\ next_birthday' = _calculate_next_birthday(birth, t)
    /\ last_birthday' = _calculate_last_birthday(birth, t)
    /\ progress_percentage' = _calculate_progress_percentage(birth, t, t, t)
    /\ age_exact' = _calculate_age_exact(birth, t, t)
    /\ time_until_next' = _calculate_time_until_next(birth, t, t)
    /\ time_since_birth' = DtSub(t, birth)
    /\ time_until_next_detailed' = DtSub(next_birthday', t)

\* The sensor is created late on some day of the years covered.
Init ==
    /\ birth_datetime \in Births
    /\ \E y \in NowYears, m \in 1..12, d \in 1..31 :
          /\ ValidDate(y, m, d)
          /\ now = FromSecondOfDay(y, m, d, Max(TimesOfDay))
    /\ Written(birth_datetime, now)
    /\ pc = "idle"
    /\ reads = << >>
    /\ ticks = 0
    /\ OthersUnused

\* The coordinator's update with the clock standing still while the state
\* is written: every property is evaluated at the instant t.
Advance ==
    /\ pc = "idle"
    /\ NextSample(now).year \in NowYears
    /\ now' = NextSample(now)
    /\ Write(birth_datetime, now')
    /\ UNCHANGED <<birth_datetime, pc, reads, ticks>>
    /\ UNCHANGED others

Next == Advance

Spec == Init /\ [][Next]_vars

(* ----------------- the properties, read by read of the clock ----------- *)

\* The clock moves at most MaxTicks seconds while the state is written.
MaxTicks == 2

\* The state is written shortly before the clock reaches a birthday
\* candidate of some year or the end of a year.
ClockStarts(birth) ==
    UNION { { SubSecond(WithBirthTime(birth, y, birth.month,
                                      IF ValidDate(y, birth.month, birth.day)
                                        THEN birth.day ELSE 28)),
              FromSecondOfDay(y, 12, 31, 86399),
              FromSecondOfDay(y, 7, 1, 0) } : y \in NowYears }

InitClock ==
    /\ birth_datetime \in Births
    /\ now \in ClockStarts(birth_datetime)
    /\ Written(birth_datetime, SubSecond(now))
    /\ pc = "idle"
    /\ reads = << >>
    /\ ticks = 0
    /\ OthersUnused

\* Time passes between two steps of the evaluation.
ClockTick ==
    /\ ticks < MaxTicks
    /\ now' = AddSecond(now)
    /\ ticks' = ticks + 1
    /\ UNCHANGED <<birth_datetime, metrics, pc, reads>>
    /\ UNCHANGED others

\* native_value (line 413) enters _calculate_progress_percentage, which
\* reads the clock at line 312.
native_value ==
    /\ pc = "idle"
    /\ reads = << >>
    /\ reads' = <<now>>
    /\ pc' = "value_next"
    /\ UNCHANGED <<birth_datetime, now, metrics, ticks>>
    /\ UNCHANGED others

\* line 313: _calculate_next_birthday reads the clock at line 148
native_value_next ==
    /\ pc = "value_next"
    /\ reads' = Append(reads, now)
    /\ pc' = "value_last"
    /\ UNCHANGED <<birth_datetime, now, metrics, ticks>>
    /\ UNCHANGED others

\* lines 316-328: _calculate_last_birthday reads the clock at line 337
native_value_last ==
    /\ pc = "value_last"
    /\ reads' = Append(reads, now)
    /\ progress_percentage' =
          _calculate_progress_percentage(birth_datetime, reads[1], reads[2], now)
    /\ pc' = "value_done"
    /\ UNCHANGED <<birth_datetime, now, next_birthday, last_birthday, age_exact,
                   time_until_next, time_since_birth, time_until_next_detailed, ticks>>
    /\ UNCHANGED others

\* extra_state_attributes reads the clock at line 423
extra_state_attributes ==
    /\ pc = "idle"
    /\ reads = << >>
    /\ reads' = <<now>>
    /\ pc' = "attr_next"
    /\ UNCHANGED <<birth_datetime, now, metrics, ticks>>
    /\ UNCHANGED others

\* line 424: _calculate_next_birthday reads the clock at line 148
attr_next_birthday ==
    /\ pc = "attr_next"
    /\ reads' = Append(reads, now)
    /\ next_birthday' = _calculate_next_birthday(birth_datetime, now)
    /\ pc' = "attr_last"
    /\ UNCHANGED <<birth_datetime, now, last_birthday, progress_percentage, age_exact,
                   time_until_next, time_since_birth, time_until_next_detailed, ticks>>
    /\ UNCHANGED others

\* lines 425-433: _calculate_last_birthday reads the clock at line 337;
\* the two spans are taken from the clock value of line 423
attr_last_birthday ==
    /\ pc = "attr_last"
    /\ reads' = Append(reads, now)
    /\ last_birthday' = _calculate_last_birthday(birth_datetime, now)
    /\ time_since_birth' = DtSub(reads[1], birth_datetime)
    /\ time_until_next_detailed' = DtSub(next_birthday, reads[1])
    /\ pc' = "age_now"
    /\ UNCHANGED <<birth_datetime, now, next_birthday, progress_percentage, age_exact,
                   time_until_next, ticks>>
    /\ UNCHANGED others

\* line 436: _calculate_age_exact reads the clock at line 125
age_exact_now ==
    /\ pc = "age_now"
    /\ reads' = Append(reads, now)
    /\ pc' = "age_last"
    /\ UNCHANGED <<birth_datetime, now, metrics, ticks>>
    /\ UNCHANGED others

\* lines 126-139: _calculate_last_birthday reads the clock at line 337
age_exact_last ==
    /\ pc = "age_last"
    /\ reads' = Append(reads, now)
    /\ age_exact' = _calculate_age_exact(birth_datetime, reads[4], now)
    /\ pc' = "until_now"
    /\ UNCHANGED <<birth_datetime, now, next_birthday, last_birthday, progress_percentage,
                   time_until_next, time_since_birth, time_until_next_detailed, ticks>>
    /\ UNCHANGED others

\* line 438: _calculate_time_until_next reads the clock at line 219
time_until_next_now ==
    /\ pc = "until_now"
    /\ reads' = Append(reads, now)
    /\ pc' = "until_next"
    /\ UNCHANGED <<birth_datetime, now, metrics, ticks>>
    /\ UNCHANGED others

\* lines 220-227: _calculate_next_birthday reads the clock at line 148
time_until_next_next ==
    /\ pc = "until_next"
    /\ reads' = Append(reads, now)
    /\ time_until_next' = _calculate_time_until_next(birth_datetime, reads[6], now)
    /\ pc' = "progress_now"
    /\ UNCHANGED <<birth_datetime, now, next_birthday, last_birthday, progress_percentage,
                   age_exact, time_since_birth, time_until_next_detailed, ticks>>
    /\ UNCHANGED others

\* line 439: _calculate_progress_percentage reads the clock at line 312
progress_now ==
    /\ pc = "progress_now"
    /\ reads' = Append(reads, now)
    /\ pc' = "progress_next"
    /\ UNCHANGED <<birth_datetime, now, metrics, ticks>>
    /\ UNCHANGED others

\* line 313: _calculate_next_birthday reads the clock at line 148
progress_next ==
    /\ pc = "progress_next"
    /\ reads' = Append(reads, now)
    /\ pc' = "progress_last"
    /\ UNCHANGED <<birth_datetime, now, metrics, ticks>>
    /\ UNCHANGED others

\* lines 316-328 and the return of lines 435-447
progress_last ==
    /\ pc = "progress_last"
    /\ reads' = Append(reads, now)
    /\ progress_percentage' =
          _calculate_progress_percentage(birth_datetime, reads[8], reads[9], now)
    /\ pc' = "attr_done"
    /\ UNCHANGED <<birth_datetime, now, next_birthday, last_birthday, age_exact,
                   time_until_next, time_since_birth, time_until_next_detailed, ticks>>
    /\ UNCHANGED others

NextClock ==
    \/ ClockTick
    \/ native_value
    \/ native_value_next
    \/ native_value_last
    \/ extra_state_attributes
    \/ attr_next_birthday
    \/ attr_last_birthday
    \/ age_exact_now
    \/ age_exact_last
    \/ time_until_next_now
    \/ time_until_next_next
    \/ progress_now
    \/ progress_next
    \/ progress_last

SpecClock == InitClock /\ [][NextClock]_vars

(* ------------------- the detailed breakdown and its text --------------- *)

MaxSpanDays == 731
MaxFieldValue == 2

\* Spans of ordinary length, and spans around 2^34 and 2^35 seconds
\* (198841 and 397682 days), which a birth year before 1482 produces.
SpanDays == (0 .. MaxSpanDays) \cup {198840, 198841, 198842, 397682, 739000}

SpanSeconds == {0, 1, 59, 60, 61, 3599, 3600, 3661, 6783, 6784, 43200, 86399}

SpanMicroseconds == {0, 999999}

Spans ==
    [days : SpanDays, seconds : SpanSeconds, microseconds : SpanMicroseconds]

Breakdowns ==
    [years : 0 .. MaxFieldValue, months : 0 .. MaxFieldValue,
     weeks : 0 .. MaxFieldValue, days : 0 .. MaxFieldValue,
     hours : 0 .. MaxFieldValue, minutes : 0 .. MaxFieldValue,
     seconds : 0 .. MaxFieldValue]

\* The sensor itself takes no part in the calls on spans.
SensorUnused ==
    /\ birth_datetime = "none"
    /\ now = "none"
    /\ next_birthday = "none"
    /\ last_birthday = "none"
    /\ progress_percentage = "none"
    /\ age_exact = "none"
    /\ time_until_next = "none"
    /\ time_since_birth = "none"
    /\ time_until_next_detailed = "none"
    /\ reads = << >>
    /\ ticks = 0

\* what time_delta holds when a breakdown is formatted on its own
NoSpan == [absent |-> TRUE]

\* Either a span about to be broken down, or a breakdown about to be
\* formatted.
InitDuration ==
    /\ SensorUnused
    /\ NoFlow
    /\ NoRegistry
    /\ formatted = "none"
    /\ \/ /\ time_delta \in Spans
          /\ breakdown = "none"
          /\ pc = "decompose"
       \/ /\ time_delta = NoSpan
          /\ breakdown \in Breakdowns
          /\ pc = "format"

Decompose ==
    /\ pc = "decompose"
    /\ breakdown' = _calculate_detailed_time_breakdown(time_delta)
    /\ pc' = "format"
    /\ UNCHANGED <<birth_datetime, now, metrics, reads, ticks>>
    /\ UNCHANGED <<time_delta, formatted, flow, registry>>

Format ==
    /\ pc = "format"
    /\ formatted' = _format_detailed_time(breakdown)
    /\ pc' = "done"
    /\ UNCHANGED <<birth_datetime, now, metrics, reads, ticks>>
    /\ UNCHANGED <<time_delta, breakdown, flow, registry>>

NextDuration ==
    \/ Decompose
    \/ Format

SpecDuration == InitDuration /\ [][NextDuration]_vars

(* --------------------- from the form to the sensor --------------------- *)

\* The day the form is filled in.
FlowToday == IsoDate(2025, 12, 31)

DateTexts ==
    {[kind |-> "empty"], [kind |-> "other"]}
    \cup [kind : {"DD.MM.YYYY", "YYYY-MM-DD"}, year : {2025}, month : {12}, day : {30, 31}]
    \cup [kind : {"DD.MM.YYYY"}, year : {2026}, month : {1}, day : {1}]
    \cup [kind : {"DD.MM.YYYY", "YYYY-MM-DD"}, year : {2025, 2000}, month : {2}, day : {29}]

TimeTexts ==
    {[kind |-> "absent"], [kind |-> "other"],
     [kind |-> "HH:MM", hour |-> 12, minute |-> 30],
     [kind |-> "HH:MM:SS", hour |-> 12, minute |-> 30, second |-> 15],
     [kind |-> "HH:MM:SS", hour |-> 23, minute |-> 59, second |-> 59]}

UserInputs ==
    [name : {"", "Ann"}, birth_date : DateTexts, birth_time : TimeTexts]

\* No sensor exists while the form is open.
NoSensor ==
    /\ birth_datetime = "none"
    /\ next_birthday = "none"
    /\ last_birthday = "none"
    /\ progress_percentage = "none"
    /\ age_exact = "none"
    /\ time_until_next = "none"
    /\ time_since_birth = "none"
    /\ time_until_next_detailed = "none"

InitFlow ==
    /\ \E s \in TimesOfDay :
          now = FromSecondOfDay(FlowToday.year, FlowToday.month, FlowToday.day, s)
    /\ NoSensor
    /\ pc = "form"
    /\ reads = << >>
    /\ ticks = 0
    /\ NoDurations
    /\ NoFlow
    /\ NoRegistry

\* config_flow.py lines 121-213: the form is submitted; an input without
\* errors creates the entry, any other shows the form again.
async_step_user ==
    /\ pc = "form"
    /\ \E user_input \in UserInputs :
          LET found == FormErrors(user_input, now)
          IN IF found = {}
               THEN /\ entry_data' = EntryData(user_input, now)
                    /\ accepted_at' = now
                    /\ errors' = {}
                    /\ pc' = "entry"
               ELSE /\ errors' = found
                    /\ pc' = "form"
                    /\ UNCHANGED <<entry_data, accepted_at>>
    /\ UNCHANGED <<birth_datetime, now, metrics, reads, ticks>>
    /\ UNCHANGED <<durations, registry>>

\* sensor.py lines 65-90: the platform creates the sensor of the entry, and
\* its state is written for the first time.
SensorCreated ==
    /\ pc = "entry"
    /\ birth_datetime' = _parse_birth_datetime(entry_data)
    /\ Write(birth_datetime', now)
    /\ pc' = "idle"
    /\ UNCHANGED <<now, reads, ticks>>
    /\ UNCHANGED others

NextFlow ==
    \/ async_step_user
    \/ SensorCreated
    \/ Advance

SpecFlow == InitFlow /\ [][NextFlow]_vars

(* ---------------------------- the domain registry ---------------------- *)

\* const.py line 3
DOMAIN_KEY == "birthday_progress"

MaxCoordinators == 4

Entries == {"entry_a", "entry_b", "entry_c"}

\* dict.setdefault(key, default)
SetDefault(data, key, default) ==
    IF key \in DOMAIN data THEN data ELSE (key :> default) @@ data

\* BirthdayProgressCoordinator(hass, entry), the n-th object created
Coordinator(n, entry_id) == [id |-> n, entry |-> entry_id]

\* hass.data[DOMAIN][entry.entry_id] = coordinator
StoreCoordinator(data, entry_id, coordinator) ==
    [data EXCEPT ![DOMAIN_KEY] = (entry_id :> coordinator) @@ data[DOMAIN_KEY]]

\* hass.data[DOMAIN].pop(entry.entry_id)
PopCoordinator(data, entry_id) ==
    [data EXCEPT ![DOMAIN_KEY] =
        [k \in (DOMAIN data[DOMAIN_KEY]) \ {entry_id} |-> data[DOMAIN_KEY][k]]]

\* lines 80-82 without the test of unload_ok
PopWhateverUnloadSays(data, entry_id, unload_ok) ==
    PopCoordinator(data, entry_id)

\* lines 80-82
PopIfUnloaded(data, entry_id, unload_ok) ==
    IF unload_ok THEN PopCoordinator(data, entry_id) ELSE data

InitRegistry ==
    /\ SensorUnused
    /\ pc = "registry"
    /\ NoDurations
    /\ NoFlow
    /\ hass_data = << >>
    /\ entry_state = [e \in Entries |-> [state |-> "not_loaded", coordinator |-> 0]]
    /\ coordinators = 0

\* __init__.py lines 27-40, called once before any entry is set up
async_setup ==
    /\ DOMAIN_KEY \notin DOMAIN hass_data
    /\ hass_data' = SetDefault(hass_data, DOMAIN_KEY, << >>)
    /\ UNCHANGED <<birth_datetime, now, metrics, pc, reads, ticks>>
    /\ UNCHANGED <<durations, flow, entry_state, coordinators>>

\* __init__.py lines 43-63, for an entry that is not loaded
async_setup_entry ==
    /\ DOMAIN_KEY \in DOMAIN hass_data
    /\ coordinators < MaxCoordinators
    /\ \E e \in Entries :
          /\ entry_state[e].state = "not_loaded"
          /\ coordinators' = coordinators + 1
          /\ hass_data' = StoreCoordinator(hass_data, e, Coordinator(coordinators', e))
          /\ entry_state' = [entry_state EXCEPT
                                ![e] = [state |-> "loaded", coordinator |-> coordinators']]
    /\ UNCHANGED <<birth_datetime, now, metrics, pc, reads, ticks>>
    /\ UNCHANGED <<durations, flow>>

\* __init__.py lines 66-84, for a loaded entry; unload_ok is what
\* async_unload_platforms returns
async_unload_entry ==
    /\ \E e \in Entries, unload_ok \in BOOLEAN :
          /\ entry_state[e].state = "loaded"
          /\ hass_data' = PopIfUnloaded(hass_data, e, unload_ok)
          /\ entry_state' = [entry_state EXCEPT
                                ![e].state = IF unload_ok THEN "not_loaded"
                                             ELSE "failed_unload"]
    /\ UNCHANGED <<birth_datetime, now, metrics, pc, reads, ticks>>
    /\ UNCHANGED <<durations, flow, coordinators>>

NextRegistry ==
    \/ async_setup
    \/ async_setup_entry
    \/ async_unload_entry

SpecRegistry == InitRegistry /\ [][NextRegistry]_vars

(* ------------------------- anniversary properties ---------------------- *)

IsFeb29Birth == birth_datetime.month = 2 /\ birth_datetime.day = 29

\* The occurrence of the anniversary in year y: the birth month, day and
\* time of day, or Feb 28 when the birth is Feb 29 and y has none.
Occurrence(b, y) ==
    IF ValidDate(y, b.month, b.day) THEN WithBirthTime(b, y, b.month, b.day)
    ELSE WithBirthTime(b, y, 2, 28)

\* The occurrences of the years around the query instant.
OccurrencesNear(b, t) == {Occurrence(b, y) : y \in (t.year - 2) .. (t.year + 2)}

\* a / b <= c / d for a, c >= 0 and b, d > 0, by continued fractions (the
\* cross products of two spans in seconds exceed 32-bit integers).
RECURSIVE RatLeq(_, _, _, _)
RatLeq(a, b, c, d) ==
    IF (a \div b) # (c \div d) THEN (a \div b) < (c \div d)
    ELSE IF a % b = 0 THEN TRUE
    ELSE IF c % d = 0 THEN FALSE
    ELSE RatLeq(d, c % d, b, a % b)

\* C1: for every birth and every query instant now, with last and next
\* computed from that same now, lastAnniversary <= now < nextAnniversary.
C1_LastNowNext == DtLeq(last_birthday, now) /\ DtLt(now, next_birthday)

\* C1 witness: a Feb-29 birth queried exactly on a 29 February.
C1_Witness ==
    /\ IsFeb29Birth
    /\ now = WithBirthTime(birth_datetime, 2024, 2, 29)
    /\ last_birthday = now

\* C2: lastAnniversary is the greatest yearly occurrence <= now and
\* nextAnniversary is the least occurrence > now (Feb 28 standing in for
\* Feb 29 in a year without one).
C2_NearestOccurrences ==
    LET occs == OccurrencesNear(birth_datetime, now)
    IN /\ last_birthday \in occs
       /\ next_birthday \in occs
       /\ DtLeq(last_birthday, now)
       /\ DtLt(now, next_birthday)
       /\ \A o \in occs : DtLeq(o, now) => DtLeq(o, last_birthday)
       /\ \A o \in occs : DtLt(now, o) => DtLeq(next_birthday, o)

\* C3: while the last anniversary stays the same, elapsed / total does not
\* decrease as now advances.
C3_ProgressMonotone ==
    [][ last_birthday' = last_birthday =>
          RatLeq(ProgressElapsed(now, last_birthday),
                 ProgressTotal(next_birthday, last_birthday),
                 ProgressElapsed(now', last_birthday'),
                 ProgressTotal(next_birthday', last_birthday')) ]_vars

\* C4: the interval is strictly positive, 0 <= elapsed <= total, the
\* progress percentage lies in [0, 100], and reads of the clock that give
\* a degenerate interval (total <= 0) give exactly 0.0.
C4_ProgressInRange ==
    /\ ProgressTotal(next_birthday, last_birthday) > 0
    /\ ProgressElapsed(now, last_birthday) >= 0
    /\ ProgressElapsed(now, last_birthday) <= ProgressTotal(next_birthday, last_birthday)
    /\ progress_percentage \in 0 .. 1000000
    /\ \A t \in {now, NextSample(now)} :
          ProgressTotal(_calculate_next_birthday(birth_datetime, now),
                        _calculate_last_birthday(birth_datetime, t)) <= 0
            => _calculate_progress_percentage(birth_datetime, now, now, t) = 0

\* C4 witness: one second before a 12:30:15 anniversary the percentage
\* rounds to the upper end, 100.0.
C4_Witness ==
    /\ progress_percentage = 1000000
    /\ SecondOfDay(now) = 45014
    /\ DtLt(now, next_birthday)
    /\ ProgressElapsed(now, last_birthday) > 0

\* C5: when now is not an anniversary instant,
\* nextAnniversary(birth, lastAnniversary(birth, now)) = nextAnniversary(birth, now).
C5_Continuity ==
    now \notin OccurrencesNear(birth_datetime, now)
      => _calculate_next_birthday(birth_datetime, last_birthday) = next_birthday

\* C6: the age in years changes only at a step that reaches an anniversary
\* instant, and then grows by exactly 1.
C6_AgeStepsAtAnniversary ==
    [][ age_exact'.years # age_exact.years =>
          /\ last_birthday' = now'
          /\ age_exact'.years = age_exact.years + 1 ]_vars

\* a Feb-29 birth queried in a leap year once that year's Feb 29 has passed
AfterFeb29OfLeapYear ==
    /\ IsFeb29Birth
    /\ IsLeap(now.year)
    /\ DtLt(WithBirthTime(birth_datetime, now.year, 2, 29), now)

\* C7: a Feb-29 birth queried in a leap year after its Feb 29
\* gets Feb 29 of the next leap year (2028-02-29 when queried 2024-03-01).
C7_NextLeapYear ==
    AfterFeb29OfLeapYear
      => next_birthday = WithBirthTime(birth_datetime, now.year + 4, 2, 29)

\* C7 amended: a Feb-29 birth queried in a leap year at or after its
\* Feb 29 gets Feb 28 of the following year at the birth time of day
\* (2025-02-28 when queried 2024-03-01).
C7_NextFeb28 ==
    (AfterFeb29OfLeapYear \/ (IsFeb29Birth /\ now = WithBirthTime(birth_datetime, now.year, 2, 29)))
      => next_birthday = WithBirthTime(birth_datetime, now.year + 1, 2, 28)

\* C7 witness: birth 2000-02-29 midnight, queried 2024-03-01.
C7_Witness ==
    /\ birth_datetime = DateTime(2000, 2, 29, 0, 0, 0)
    /\ now = DateTime(2024, 3, 1, 0, 0, 0)
    /\ next_birthday = DateTime(2025, 2, 28, 0, 0, 0)

\* C8: a Feb-29 birth queried in a non-leap year whose following year is a
\* leap year gets Feb 29 of that year at the birth time of day; birth
\* 2000-02-29 queried 2023-03-01 gets 2024-02-29.
C8_NextFeb29 ==
    /\ (IsFeb29Birth /\ ~IsLeap(now.year) /\ IsLeap(now.year + 1))
         => next_birthday = WithBirthTime(birth_datetime, now.year + 1, 2, 29)
    /\ (birth_datetime = DateTime(2000, 2, 29, 0, 0, 0) /\ now = DateTime(2023, 3, 1, 0, 0, 0))
         => next_birthday = DateTime(2024, 2, 29, 0, 0, 0)

\* C8 witness: birth 2000-02-29 midnight, queried 2023-03-01.
C8_Witness ==
    /\ birth_datetime = DateTime(2000, 2, 29, 0, 0, 0)
    /\ now = DateTime(2023, 3, 1, 0, 0, 0)
    /\ next_birthday.year = 2024

\* now is the birth month, day and time of day of its year
OnAnniversaryInstant ==
    /\ ValidDate(now.year, birth_datetime.month, birth_datetime.day)
    /\ now = WithBirthTime(birth_datetime, now.year, birth_datetime.month, birth_datetime.day)
    /\ now.year >= birth_datetime.year

\* C9: at an anniversary instant of year Y the anniversary has occurred:
\* last = now, next is the occurrence of year Y + 1, the progress is 0.0
\* and the age is Y - birth year (28 for birth 1996-06-15 at 2024-06-15).
C9_ExactAnniversary ==
    /\ OnAnniversaryInstant =>
         /\ last_birthday = now
         /\ next_birthday = Occurrence(birth_datetime, now.year + 1)
         /\ progress_percentage = 0
         /\ age_exact.years = now.year - birth_datetime.year
         /\ age_exact.days = 0 /\ age_exact.hours = 0
         /\ age_exact.minutes = 0 /\ age_exact.seconds = 0
    /\ (birth_datetime = DateTime(1996, 6, 15, 0, 0, 0) /\ now = DateTime(2024, 6, 15, 0, 0, 0))
         => /\ next_birthday = DateTime(2025, 6, 15, 0, 0, 0)
            /\ age_exact.years = 28

\* C9 witness: birth 1996-06-15 midnight, queried 2024-06-15 midnight.
C9_Witness ==
    /\ birth_datetime = DateTime(1996, 6, 15, 0, 0, 0)
    /\ now = DateTime(2024, 6, 15, 0, 0, 0)
    /\ last_birthday = now

(* ---------------------- one instant per evaluation -------------------- *)

\* the instants from a to b, second by second (a <= b)
RECURSIVE Span(_, _)
Span(a, b) == IF a = b THEN {a} ELSE {a} \cup Span(AddSecond(a), b)

AgeExactReturned ==
    pc \in {"until_now", "until_next", "progress_now", "progress_next",
            "progress_last", "attr_done"}

TimeUntilNextReturned ==
    pc \in {"progress_now", "progress_next", "progress_last", "attr_done"}

\* C10: each evaluation of the progress percentage, of the exact age, of
\* the countdown and of the whole set of attributes returns what it would
\* return with every read of the clock giving one single instant of the
\* evaluation; so the progress is within [0, 100] and the day count of the
\* exact age is not negative.
C10_OneInstantPerEvaluation ==
    /\ pc = "value_done" =>
         \E t \in Span(reads[1], reads[3]) :
            progress_percentage = _calculate_progress_percentage(birth_datetime, t, t, t)
    /\ AgeExactReturned =>
         /\ \E t \in Span(reads[4], reads[5]) :
               age_exact = _calculate_age_exact(birth_datetime, t, t)
         /\ age_exact.days >= 0
    /\ TimeUntilNextReturned =>
         \E t \in Span(reads[6], reads[7]) :
            time_until_next = _calculate_time_until_next(birth_datetime, t, t)
    /\ pc = "attr_done" =>
         /\ \E t \in Span(reads[8], reads[10]) :
               progress_percentage = _calculate_progress_percentage(birth_datetime, t, t, t)
         /\ \E t \in Span(reads[1], reads[10]) : Written(birth_datetime, t)
    /\ progress_percentage \in 0 .. 1000000

(* ------------------------- breakdown properties ------------------------ *)

Decomposed == pc \in {"format", "done"} /\ "days" \in DOMAIN time_delta

\* floor(span / 1 day) of a normalised timedelta
TotalDays == time_delta.days

\* floor(span / 1 second) mod m, for an m that divides 86400: the whole
\* days of the span are a multiple of m
TotalSecondsMod(m) == time_delta.seconds % m

\* C11: for every non-negative span the breakdown is the reference one:
\* years = totalDays div 365, months = (totalDays mod 365) div 30, weeks and
\* days from what is left of 30, hours = (totalSeconds mod 86400) div 3600,
\* minutes = (totalSeconds mod 3600) div 60, seconds = totalSeconds mod 60,
\* every field non-negative; 181 days 12 hours give years 0 and months 6.
C11_ReferenceBreakdown ==
    Decomposed =>
        /\ breakdown.years = TotalDays \div 365
        /\ breakdown.months = (TotalDays % 365) \div 30
        /\ breakdown.weeks = ((TotalDays % 365) % 30) \div 7
        /\ breakdown.days = ((TotalDays % 365) % 30) % 7
        /\ breakdown.hours = TotalSecondsMod(86400) \div 3600
        /\ breakdown.minutes = TotalSecondsMod(3600) \div 60
        /\ breakdown.seconds = TotalSecondsMod(60)
        /\ \A f \in DOMAIN breakdown : breakdown[f] >= 0
        /\ (time_delta.days = 181 /\ time_delta.seconds = 43200)
               => breakdown.years = 0 /\ breakdown.months = 6

\* The days the day fields of the breakdown stand for
BreakdownDays ==
    365 * breakdown.years + 30 * breakdown.months + 7 * breakdown.weeks
        + breakdown.days

\* The seconds of a day the time fields of the breakdown stand for
BreakdownSecondOfDay ==
    3600 * breakdown.hours + 60 * breakdown.minutes + breakdown.seconds

\* C16: for every non-negative span the breakdown is a lossless split of
\* the whole seconds of the span: 86400 * (365 years + 30 months + 7 weeks
\* + days) + 3600 hours + 60 minutes + seconds = totalSeconds, with weeks
\* in 0..4, days in 0..6, hours in 0..23, minutes and seconds in 0..59 and
\* months in 0..12.  With the time fields below 86400 the sum equals
\* totalSeconds exactly when its day part is floor(span / 1 day) and its
\* second-of-day part is the span's.
C16_LosslessSplit ==
    Decomposed =>
        /\ breakdown.months \in 0 .. 12
        /\ breakdown.weeks \in 0 .. 4
        /\ breakdown.days \in 0 .. 6
        /\ breakdown.hours \in 0 .. 23
        /\ breakdown.minutes \in 0 .. 59
        /\ breakdown.seconds \in 0 .. 59
        /\ BreakdownDays = time_delta.days
        /\ BreakdownSecondOfDay = time_delta.seconds

(* --------------------------- format properties ------------------------- *)

Formatted == pc = "done"

FieldOrder ==
    <<"years", "months", "weeks", "days", "hours", "minutes", "seconds">>

Unit ==
    [years |-> "year", months |-> "month", weeks |-> "week", days |-> "day",
     hours |-> "hour", minutes |-> "minute", seconds |-> "second"]

IsNonZeroField(f) == breakdown[f] # 0

\* "<n> <unit>", the unit pluralised iff n # 1
Emitted(f) ==
    IF breakdown[f] = 1 THEN "1 " \o Unit[f]
    ELSE ToString(breakdown[f]) \o " " \o Unit[f] \o "s"

NonZeroFields == SelectSeq(FieldOrder, IsNonZeroField)

\* "A, B, ..., " for the fields before the last one of three or more
RECURSIVE CommaList(_)
CommaList(fs) ==
    IF Len(fs) = 0 THEN "" ELSE Emitted(Head(fs)) \o ", " \o CommaList(Tail(fs))

ExpectedText ==
    LET fs == NonZeroFields
        n == Len(fs)
    IN IF n = 0 THEN "0 seconds"
       ELSE IF n = 1 THEN Emitted(fs[1])
       ELSE IF n = 2 THEN Emitted(fs[1]) \o " and " \o Emitted(fs[2])
       ELSE CommaList(SubSeq(fs, 1, n - 1)) \o "and " \o Emitted(fs[n])

\* C12: for every breakdown of non-negative fields the text is the non-zero
\* fields in the order years .. seconds, each "<n> <unit>" with the unit
\* pluralised iff n # 1, joined as "A", "A and B" or "A, B, ..., and Z";
\* all fields zero give "0 seconds"; the breakdown of 90061 seconds gives
\* "1 day, 1 hour, 1 minute, and 1 second".
C12_FormattedText ==
    Formatted =>
        /\ formatted = ExpectedText
        /\ (\A f \in DOMAIN breakdown : breakdown[f] = 0)
               => formatted = "0 seconds"
        /\ ("days" \in DOMAIN time_delta /\ time_delta.days = 1
                /\ time_delta.seconds = 3661)
               => formatted = "1 day, 1 hour, 1 minute, and 1 second"

\* 90061 seconds have been broken down and formatted.
C12_Witness ==
    /\ Formatted
    /\ "days" \in DOMAIN time_delta
    /\ time_delta.days = 1 /\ time_delta.seconds = 3661
    /\ formatted = "1 day, 1 hour, 1 minute, and 1 second"

(* ------------------------ the returned anniversaries ------------------- *)

HasBirthTimeOfDay(r) ==
    /\ r.hour = birth_datetime.hour
    /\ r.minute = birth_datetime.minute
    /\ r.second = birth_datetime.second

HasBirthMonthDay(r) ==
    IF ~IsFeb29Birth
      THEN r.month = birth_datetime.month /\ r.day = birth_datetime.day
      ELSE \/ r.month = 2 /\ r.day = 29 /\ IsLeap(r.year)
           \/ r.month = 2 /\ r.day = 28 /\ ~IsLeap(r.year)

\* C13: every instant returned by lastAnniversary or nextAnniversary has
\* the birth time of day and, for a birth not on Feb 29, the birth month
\* and day; for a Feb-29 birth it is Feb 29 of a leap year or Feb 28 of a
\* non-leap year.
C13_BirthMonthDayTime ==
    \A r \in {last_birthday, next_birthday} :
        HasBirthTimeOfDay(r) /\ HasBirthMonthDay(r)

\* A Feb-29 birth with a time of day, queried where both results are Feb 28.
C13_Witness ==
    /\ birth_datetime = DateTime(2000, 2, 29, 12, 30, 15)
    /\ now = DateTime(2026, 1, 1, 0, 0, 0)
    /\ last_birthday = DateTime(2025, 2, 28, 12, 30, 15)
    /\ next_birthday = DateTime(2027, 2, 28, 12, 30, 15)

\* Births later than every sampled now, for the queries with now < birth.
LaterBirths ==
    {DateTime(2032, 2, 29, 0, 0, 0), DateTime(2032, 2, 29, 12, 30, 15),
     DateTime(2031, 6, 15, 0, 0, 0), DateTime(2031, 2, 28, 12, 30, 15)}

\* The datetime exists: the constructor that built it did not raise.
Returned(r) == ValidDate(r.year, r.month, r.day)

\* C14: lastAnniversary and nextAnniversary return a result without raising
\* for every valid birth (Feb 29 included) and every now, before or after
\* the birth, in a leap year or not, and the result is a function of
\* (birth, now): what the sensor holds is that result.
C14_TotalAndDeterministic ==
    /\ Returned(next_birthday) /\ Returned(last_birthday)
    /\ next_birthday = _calculate_next_birthday(birth_datetime, now)
    /\ last_birthday = _calculate_last_birthday(birth_datetime, now)
    /\ \A b \in LaterBirths :
          /\ DtLt(now, b)
          /\ Returned(_calculate_next_birthday(b, now))
          /\ Returned(_calculate_last_birthday(b, now))

\* The candidate moved to year + 1 hit a Feb 29 that does not exist, and
\* the scan found none after now: the Feb 28 fallback was assigned.
C14_Witness ==
    /\ IsFeb29Birth
    /\ IsLeap(now.year)
    /\ now = WithBirthTime(birth_datetime, now.year, 2, 29)
    /\ SecondOfDay(now) = 45015
    /\ next_birthday = WithBirthTime(birth_datetime, now.year + 1, 2, 28)

(* --------------------------- the accepted birth ------------------------ *)

\* C15: every birth instant the form accepts and the sensor uses is not
\* after the moment it is accepted, so the span now - birth of every later
\* query is non-negative.
C15_BirthNotInFuture ==
    pc = "idle" =>
        /\ DtLeq(birth_datetime, accepted_at)
        /\ time_since_birth.days >= 0

(* --------------------------- registry properties ----------------------- *)

\* the entries set up and not since successfully unloaded
SetUpEntries == {e \in Entries : entry_state[e].state \in {"loaded", "failed_unload"}}

\* C17: once async_setup has run, hass.data[DOMAIN] holds a coordinator for
\* exactly the entries set up and not since successfully unloaded, each the
\* one its latest setup created: a successful unload removes that entry's
\* coordinator only, a failed one removes nothing.
C17_RegistryMatchesEntries ==
    IF DOMAIN_KEY \in DOMAIN hass_data
      THEN /\ DOMAIN hass_data[DOMAIN_KEY] = SetUpEntries
           /\ \A e \in SetUpEntries :
                 hass_data[DOMAIN_KEY][e] = Coordinator(entry_state[e].coordinator, e)
      ELSE SetUpEntries = {}

\* One entry loaded, one whose unload failed, one set up and unloaded again.
C17_Witness ==
    /\ entry_state["entry_a"].state = "loaded"
    /\ entry_state["entry_b"].state = "failed_unload"
    /\ entry_state["entry_c"] = [state |-> "not_loaded", coordinator |-> 2]
    /\ DOMAIN hass_data[DOMAIN_KEY] = {"entry_a", "entry_b"}

====
